---- MODULE Spec2Model ----
(***************************************************************************)
(* Model of the quiz-editor backend: the stored tables (app/model.py), the  *)
(* request schemas (app/schema.py) and the HTTP handlers of app/api.       *)
(*                                                                         *)
(* A nullable value is None (the empty tuple) or Some(v) (a 1-tuple).      *)
(* Text that the keyword filter inspects is a sequence of characters.      *)
(* A request body is a function from the keys the client sent to values.   *)
(* Timestamps and creator/updater ids are filled by the database and by no *)
(* handler; rows carry the columns the handlers read or write.             *)
(***************************************************************************)
EXTENDS Integers, Sequences, FiniteSets, TLC

VARIABLES
    problems,          \* problem_id  -> row of table "problem" (+ its problem_tag rows)
    judging_criteria,  \* criteria_id -> row of table "judging_criteria"
    comments,          \* comment_id  -> row of table "comment"
    comment_groups,    \* comment_group_id -> row of table "comment_group"
    tag_groups,        \* tag_group_id -> row of table "tag_group"
    tags,              \* tag_id      -> row of table "tag"
    last,              \* the request served last, since the last fixture write, and its response
    requests,          \* request -> its input, its place in the handler, its session
    registry,          \* worker thread -> the session SessionLocal() gives in that thread
    sessions           \* session -> its transaction and the objects it holds

vars == <<problems, judging_criteria, comments, comment_groups, tag_groups, tags, last,
          requests, registry, sessions>>
web == <<requests, registry, sessions>>
db == <<problems, judging_criteria, comments, comment_groups, tag_groups, tags>>

---------------------------------------------------------------------------
(* Bounds of the model *)

\* identifiers a table hands out are 1..MaxId
MaxId == 1
\* rows stored over all tables
MaxRows == 1
\* problems in the seeded database of the listing specification
MaxListed == 2
\* requests in flight at once
MaxRequests == 2

Ids == 1..MaxId

None == <<>>
Some(v) == <<v>>
IsNone(x) == x = None
Val(x) == x[1]

Range(f) == {f[x] : x \in DOMAIN f}
SetToSeq(S) == CHOOSE s \in [1..Cardinality(S) -> S] : Range(s) = S
Restrict(f, S) == [x \in S |-> f[x]]
Without(f, x) == [y \in (DOMAIN f) \ {x} |-> f[y]]
With(f, x, v) == [y \in (DOMAIN f) \cup {x} |-> IF y = x THEN v ELSE f[y]]

RowCount ==
    Cardinality(DOMAIN problems) + Cardinality(DOMAIN judging_criteria)
    + Cardinality(DOMAIN comments) + Cardinality(DOMAIN comment_groups)
    + Cardinality(DOMAIN tag_groups) + Cardinality(DOMAIN tags)

---------------------------------------------------------------------------
(* Request schemas (app/schema.py).  Every field is declared without a    *)
(* default value, so the validator requires the key to be present; a      *)
(* field typed "T | None" accepts null, a field typed "T" does not.       *)

SchemaFields(schema) ==
    CASE schema = "ProblemCreate" ->
            {"problem_text", "answer", "original_text", "genre_id", "sort_order",
             "tags", "judging_criteria"}
      [] schema = "ProblemUpdate" ->
            {"problem_text", "answer", "original_text", "genre_id", "sort_order",
             "tags", "judging_criteria"}
      [] schema = "TagGroupCreate" -> {"group_name"}
      [] schema = "TagGroupUpdate" -> {"group_name"}
      [] schema = "TagCreate" -> {"tag_name", "sort_order"}
      [] schema = "TagUpdate" -> {"tag_name", "sort_order"}
      [] schema = "CommentGroupCreate" -> {"group_name"}
      [] schema = "CommentGroupUpdate" -> {"group_name"}
      [] schema = "CommentCreate" -> {"comment_group_id", "body"}
      [] schema = "CommentUpdate" -> {"comment_group_id", "body"}

\* the annotation of the field admits null
Nullable(schema, f) ==
    CASE schema = "ProblemCreate" -> f \in {"original_text", "genre_id", "sort_order"}
      [] schema = "TagGroupCreate" -> FALSE
      [] schema = "TagCreate" -> f = "sort_order"
      [] schema = "CommentGroupCreate" -> FALSE
      [] schema = "CommentCreate" -> f = "comment_group_id"
      [] OTHER -> TRUE

\* the field declares a default (none does: "name: type" with no "= value")
HasDefault(schema, f) == FALSE

\* BaseModel validation of a JSON body against a schema
Validate(schema, body) ==
    \A f \in SchemaFields(schema) :
        /\ f \in DOMAIN body \/ HasDefault(schema, f)
        /\ (f \in DOMAIN body /\ IsNone(body[f])) => Nullable(schema, f)

\* model_dump(): every field of the validated model
model_dump(schema, body) ==
    [f \in SchemaFields(schema) |-> IF f \in DOMAIN body THEN body[f] ELSE None]

\* model_dump(exclude_unset=True): only the fields the client sent
model_dump_exclude_unset(schema, body) ==
    Restrict(body, DOMAIN body \cap SchemaFields(schema))

---------------------------------------------------------------------------
(* Values the requests of the model carry *)

Criterion == [criteria_type |-> "accuracy", criteria_text |-> "Must be correct"]

\* the value a request gives a field
NewValue(f) ==
    CASE f = "problem_text" -> Some(<<"b">>)
      [] f = "answer" -> Some(<<"B">>)
      [] f = "original_text" -> Some(<<"b", "b">>)
      [] f = "genre_id" -> Some(2)
      [] f = "sort_order" -> Some(2)
      [] f = "tags" -> Some(<<>>)
      [] f = "judging_criteria" -> Some(<<>>)
      [] f = "group_name" -> Some(<<"g">>)
      [] f = "tag_name" -> Some(<<"n">>)
      [] f = "comment_group_id" -> Some(2)
      [] f = "body" -> Some(<<"c">>)

\* another value a request may give it: null, a tag id, a criterion, the empty text
OtherValues(f) ==
    CASE f = "tags" -> {Some(<<1>>)}
      [] f = "judging_criteria" -> {Some(<<Criterion>>)}
      [] f = "body" -> {None, Some(<<>>)}
      [] f \in {"group_name", "tag_name", "sort_order", "comment_group_id"} -> {None}
      [] OTHER -> {}

\* keys a body of the model may leave out, one at a time: the optional keys the
\* tests leave out, and the keys of the texts
OmittedKeys ==
    {"original_text", "sort_order", "comment_group_id", "problem_text", "tag_name", "body"}

\* key sets of the bodies: every key, one key of OmittedKeys missing, no key,
\* and the two keys the update test sends
KeySets(schema) ==
    {K \in SUBSET SchemaFields(schema) :
        \/ K = SchemaFields(schema)
        \/ K = {}
        \/ \E f \in OmittedKeys : K = SchemaFields(schema) \ {f}
        \/ K = {"problem_text", "answer"}}

\* bodies: the new value for every key sent; with every key sent, one key may
\* carry another value
Bodies(schema) ==
    LET full == [f \in SchemaFields(schema) |-> NewValue(f)]
    IN  {Restrict(full, K) : K \in KeySets(schema)} \cup
        UNION {{[full EXCEPT ![f] = v] : v \in OtherValues(f)} : f \in SchemaFields(schema)}

\* the schema classes of app/schema.py that annotate a request body
Schemas ==
    {"ProblemCreate", "ProblemUpdate", "TagGroupCreate", "TagGroupUpdate", "TagCreate",
     "TagUpdate", "CommentGroupCreate", "CommentGroupUpdate", "CommentCreate",
     "CommentUpdate"}

\* the bodies of the requests, by schema
RequestBodies == [schema \in Schemas |-> Bodies(schema)]

\* the bodies that pass validation, by schema
Accepted == [schema \in Schemas |-> {body \in RequestBodies[schema] : Validate(schema, body)}]

---------------------------------------------------------------------------
(* The router: the (method, path) pairs the handlers are decorated with   *)
(* in app/api/problem.py.                                                 *)

Routes ==
    { <<"GET", "/problems/">>, <<"POST", "/problems/">>,
      <<"GET", "/problems/{problem_id}">>, <<"PUT", "/problems/{problem_id}">>,
      <<"DELETE", "/problems/{problem_id}">>,
      <<"GET", "/tag-groups/">>, <<"POST", "/tag-groups/">>,
      <<"PUT", "/tag-groups/{tag_group_id}">>, <<"DELETE", "/tag-groups/{tag_group_id}">>,
      <<"GET", "/tag-groups/{tag_group_id}/tags/">>,
      <<"POST", "/tag-groups/{tag_group_id}/tags/">>,
      <<"PUT", "/tags/{tag_id}">>,
      <<"GET", "/problems/{problem_id}/comments/">>,
      <<"POST", "/problems/{problem_id}/comments/">>,
      <<"PUT", "/comments/{comment_id}">>, <<"DELETE", "/comments/{comment_id}">>,
      <<"GET", "/comment-groups/">>, <<"POST", "/comment-groups/">>,
      <<"PUT", "/comment-groups/{comment_group_id}">>,
      <<"DELETE", "/comment-groups/{comment_group_id}">> }

Methods == {"GET", "POST", "PUT", "DELETE"}
Paths == {r[2] : r \in Routes}

\* identifiers a path can name: those of the tables and one no table ever holds
PathIds == 1..(MaxId + 1)

\* the table whose primary key a path names
PathTable(path) ==
    CASE path \in {"/problems/{problem_id}", "/problems/{problem_id}/comments/"} -> problems
      [] path \in {"/tag-groups/{tag_group_id}", "/tag-groups/{tag_group_id}/tags/"} -> tag_groups
      [] path = "/tags/{tag_id}" -> tags
      [] path = "/comments/{comment_id}" -> comments
      [] path = "/comment-groups/{comment_group_id}" -> comment_groups
      [] OTHER -> <<>>

NoBody == <<>>
NoId == 0

\* the paths that name no row
CollectionPaths == {"/problems/", "/tag-groups/", "/comment-groups/"}

\* result is the set of the identifiers a listing returns and rows the order it
\* returns them in
Response(method, path, id, body, status, detail, row, result) ==
    [method |-> method, path |-> path, id |-> id, body |-> body,
     existed |-> id \in DOMAIN PathTable(path),
     status |-> status, detail |-> detail, row |-> row, result |-> result,
     rows |-> <<>>]

\* no request served since the database was last written
NoRequest == Response("", "", NoId, NoBody, 0, "", None, {})

\* a faulty variant of NotFound: the handler goes on with the missing row and returns null
NotFound_Silent(method, path, id, body, entity) ==
    Response(method, path, id, body, 200, "", None, {})

\* HTTPException(status_code=404, detail=...)
NotFound(method, path, id, body, entity) ==
    Response(method, path, id, body, 404, entity \o " not found", None, {})

\* the JSON content of the answer to RequestValidationError that an application
\* with no handler of its own for it gives: the list of the validation errors
ValidationErrors == "{\"detail\": [...]}"

\* RequestValidationError: the body does not fit the schema; the applications
\* that carry the routes (app = FastAPI() in app/api) register no handler for it
Unprocessable(method, path, id, body) ==
    Response(method, path, id, body, 422, ValidationErrors, None, {})

\* an exception no handler catches
ServerError(method, path, id, body) ==
    Response(method, path, id, body, 500, "Internal Server Error", None, {})

\* a path the router knows, asked with a method it has no handler for
MethodNotAllowed(method, path, id) ==
    Response(method, path, id, NoBody, 405, "Method Not Allowed", None, {})

---------------------------------------------------------------------------
(* GET /problems/ : the listing query builder (read_problems)             *)

\* "if x:" on an optional integer: None and 0 are falsy
TruthyInt(x) == ~IsNone(x) /\ Val(x) # 0

\* a faulty variant of TruthySeq: "if x is not None:"
TruthySeq_IsNotNone(x) == ~IsNone(x)

\* "if x:" on an optional list or string: None and the empty one are falsy
TruthySeq(x) == ~IsNone(x) /\ Len(Val(x)) > 0

Lower(c) == CASE c = "A" -> "a" [] c = "B" -> "b" [] OTHER -> c
LowerStr(s) == [i \in 1..Len(s) |-> Lower(s[i])]

\* SQL LIKE: "%" stands for any run of characters, "_" for any one character
RECURSIVE Like(_, _)
Like(s, pattern) ==
    IF pattern = <<>> THEN s = <<>>
    ELSE IF Head(pattern) = "%"
         THEN Like(s, Tail(pattern)) \/ (s # <<>> /\ Like(Tail(s), pattern))
         ELSE /\ s # <<>>
              /\ Head(pattern) = "_" \/ Head(pattern) = Head(s)
              /\ Like(Tail(s), Tail(pattern))

\* column.ilike(pattern): LIKE on the lower-cased operands; NULL matches nothing
ILike(column, pattern) ==
    ~IsNone(column) /\ Like(LowerStr(Val(column)), LowerStr(pattern))

\* Problem.genre_id == genre_id
GenreFilter(q, row) ==
    TruthyInt(q.genre_id) => row.genre_id = q.genre_id

\* a faulty variant of TagFilter: the problem must carry every tag of the list
TagFilter_All(q, row) ==
    TruthySeq(q.tag_id) =>
        \A t \in Range(Val(q.tag_id)) : t \in DOMAIN tags /\ t \in row.tags

\* Problem.tags.any(Tag.tag_id.in_(tag_id)): EXISTS over problem_tag joined with tag
TagFilter(q, row) ==
    TruthySeq(q.tag_id) =>
        \E t \in row.tags : t \in DOMAIN tags /\ t \in Range(Val(q.tag_id))

\* Problem.problem_text.ilike(f"%{keyword}%")
KeywordFilter(q, row) ==
    TruthySeq(q.keyword) => ILike(row.problem_text, <<"%">> \o Val(q.keyword) \o <<"%">>)

\* a faulty variant of Matches: each filter(...) is applied to a fresh query, the last one wins
Matches_LastWins(q, row) ==
    IF TruthySeq(q.keyword) THEN KeywordFilter(q, row)
    ELSE IF TruthySeq(q.tag_id) THEN TagFilter(q, row)
    ELSE GenreFilter(q, row)

\* successive query.filter(...) calls: the WHERE clauses are conjoined
Matches(q, row) ==
    GenreFilter(q, row) /\ TagFilter(q, row) /\ KeywordFilter(q, row)

\* the identifiers of the rows query.all() returns
Listing(q) == {id \in DOMAIN problems : Matches(q, problems[id])}

\* the request with no query parameter: Query(None), and Query("ASC") for order_dir
NoParams ==
    [genre_id |-> None, tag_id |-> None, keyword |-> None,
     order_by |-> None, order_dir |-> "ASC"]

\* order_by is written as the sequence of its commas and of the runs of other
\* characters between them: "problem_text,answer" is <<"problem_text", ",", "answer">>
RECURSIVE Join(_)
Join(run) == IF run = <<>> THEN "" ELSE Head(run) \o Join(Tail(run))

\* order_by.split(",")
RECURSIVE Split(_)
Split(s) ==
    IF \A i \in 1..Len(s) : s[i] # ","
    THEN <<Join(s)>>
    ELSE LET i == CHOOSE i \in 1..Len(s) : s[i] = "," /\ \A j \in 1..(i - 1) : s[j] # ","
         IN  <<Join(SubSeq(s, 1, i - 1))>> \o Split(SubSeq(s, i + 1, Len(s)))

\* the Column attributes of class Problem
ProblemColumns ==
    {"problem_id", "problem_text", "answer", "original_text", "genre_id", "sort_order",
     "created_at", "updated_at", "created_by", "updated_by"}

\* what else hasattr(Problem, key) finds: the relationships, and the attributes
\* the class inherits from Base
ProblemAttributes ==
    {"genre", "tags", "comments", "judging_criteria", "metadata", "registry", "query"}

\* what hasattr(Tag, key) finds
TagAttributes ==
    {"tag_id", "tag_group_id", "tag_name", "sort_order", "created_at", "updated_at",
     "created_by", "updated_by", "tag_group", "problems", "metadata", "registry", "query"}

\* the loop over order_by.split(","): getattr(Problem, key), else Tag.tag_name,
\* else nothing
RECURSIVE OrderKeys(_)
OrderKeys(tokens) ==
    IF tokens = <<>> THEN <<>>
    ELSE LET key == Head(tokens) IN
         (IF key \in ProblemColumns \cup ProblemAttributes THEN <<<<"Problem", key>>>>
          ELSE IF key \in TagAttributes THEN <<<<"Tag", "tag_name">>>>
          ELSE <<>>) \o OrderKeys(Tail(tokens))

\* the keys given to query.order_by: none when "if order_by:" is false
order_keys(q) == IF TruthySeq(q.order_by) THEN OrderKeys(Split(Val(q.order_by))) ELSE <<>>

\* a faulty variant of Descending: the direction is compared without regard to case
Descending_AnyCase(q) == q.order_dir \in {"DESC", "desc"}

\* if order_dir == "DESC": every key becomes key.desc()
Descending(q) == q.order_dir = "DESC"

\* a key that is no column of Problem: a relationship or an inherited attribute
\* (MetaData, registry, Query) is no ORDER BY expression (and has no desc())
OrderRaises(keys) ==
    \E i \in 1..Len(keys) : keys[i][1] = "Problem" /\ keys[i][2] \notin ProblemColumns

\* a key on Tag.tag_name, a table the SELECT does not name in its FROM clause
OrdersByTag(keys) == \E i \in 1..Len(keys) : keys[i][1] = "Tag"

\* the characters of the stored texts, in the order of their codes
Alphabet == <<"%", "1", "2", "A", "B", "C", "P", "_", "a", "b", "c", "e", "g", "n", "t">>
Codes == [c \in Range(Alphabet) |-> CHOOSE i \in 1..Len(Alphabet) : Alphabet[i] = c]
Code(c) == Codes[c]

\* text comparison of the ORDER BY, character code by character code
RECURSIVE TextLess(_, _)
TextLess(s, t) ==
    IF t = <<>> THEN FALSE
    ELSE IF s = <<>> THEN TRUE
    ELSE \/ Code(Head(s)) < Code(Head(t))
         \/ Head(s) = Head(t) /\ TextLess(Tail(s), Tail(t))

TextColumns == {"problem_text", "answer", "original_text"}

\* the value of a row in a column; timestamps and creator ids are not stored in
\* the model and read as NULL
ColumnValue(id, column) ==
    IF column = "problem_id" THEN Some(id)
    ELSE IF column \in DOMAIN problems[id] THEN problems[id][column]
    ELSE None

\* x sorts before y in the column, ascending; a NULL sorts below every value
\* (null_low, as SQLite does) or above every value (as PostgreSQL does)
ValueLess(column, x, y, null_low) ==
    IF IsNone(x) THEN ~IsNone(y) /\ null_low
    ELSE IF IsNone(y) THEN ~null_low
    ELSE IF column \in TextColumns THEN TextLess(Val(x), Val(y))
    ELSE Val(x) < Val(y)

\* row a must come before row b under ORDER BY keys [DESC]
RECURSIVE Precedes(_, _, _, _, _)
Precedes(a, b, keys, desc, null_low) ==
    IF keys = <<>> THEN FALSE
    ELSE LET column == Head(keys)[2]
             x == ColumnValue(a, column)
             y == ColumnValue(b, column)
         IN  \/ IF desc THEN ValueLess(column, y, x, null_low)
                         ELSE ValueLess(column, x, y, null_low)
             \/ x = y /\ Precedes(a, b, Tail(keys), desc, null_low)

\* the arrangements of a set of identifiers in a sequence
RECURSIVE Arrangements(_)
Arrangements(S) ==
    IF S = {} THEN {<<>>}
    ELSE UNION {{<<x>> \o rest : rest \in Arrangements(S \ {x})} : x \in S}

\* the orders query.all() may return the rows in: any order that agrees with the
\* ORDER BY keys; without ORDER BY the database returns the rows in any order
Orderings(S, keys, desc) ==
    IF keys = <<>> THEN Arrangements(S)
    ELSE {rows \in Arrangements(S) :
            \E null_low \in BOOLEAN :
                \A i, j \in 1..Len(rows) :
                    i < j => ~Precedes(rows[j], rows[i], keys, desc, null_low)}

\* the listing when a key is Tag.tag_name: the tag table is not joined to the
\* query, so the statement either fails in the database, or, where the table is
\* added to the FROM clause, pairs every problem with every tag
TagOrderedListing(q) == IF DOMAIN tags = {} THEN {} ELSE Listing(q)

read_problems(params) ==
    /\ \E q \in params :
        LET path == "/problems/"
            keys == order_keys(q)
            listed == IF OrdersByTag(keys) THEN TagOrderedListing(q) ELSE Listing(q)
        IN  IF OrderRaises(keys)
            THEN last' = ServerError("GET", path, NoId, q)
            ELSE \/ /\ OrdersByTag(keys)
                    /\ last' = ServerError("GET", path, NoId, q)
                 \/ \E rows \in IF OrdersByTag(keys) THEN Arrangements(listed)
                                 ELSE Orderings(listed, keys, Descending(q)) :
                        last' = [Response("GET", path, NoId, q, 200, "", None, listed)
                                 EXCEPT !.rows = rows]
    /\ UNCHANGED db

---------------------------------------------------------------------------
(* Problem handlers *)

ScalarColumns == {"problem_text", "answer", "original_text", "genre_id", "sort_order"}

\* assigning a list to the relationship Problem.tags / Problem.judging_criteria:
\* None is not list-like, and an int or a dict is no mapped instance
RelationshipRaises(value) == IsNone(value) \/ Len(Val(value)) > 0

\* NOT NULL columns checked at commit
NotNullViolated(row, columns) == \E c \in columns : IsNone(row[c])

\* Problem(**problem_data), then JudgingCriteria(**criteria_data.dict()) per item
CreateProblemRaises(problem_data) ==
    \/ RelationshipRaises(problem_data["tags"])
    \/ RelationshipRaises(problem_data["judging_criteria"])

create_problem ==
    \E body \in RequestBodies["ProblemCreate"] :
        IF body \notin Accepted["ProblemCreate"]
        THEN /\ last' = Unprocessable("POST", "/problems/", NoId, body)
             /\ UNCHANGED db
        ELSE LET problem_data == model_dump("ProblemCreate", body)
                 row == [c \in ScalarColumns |-> problem_data[c]] @@ [tags |-> {}]
             IN  IF CreateProblemRaises(problem_data)
                    \/ NotNullViolated(row, {"problem_text"})
                 THEN /\ last' = ServerError("POST", "/problems/", NoId, body)
                      /\ UNCHANGED db
                 ELSE \E new \in Ids \ DOMAIN problems :
                      /\ RowCount < MaxRows
                      /\ problems' = With(problems, new, row)
                      /\ last' = Response("POST", "/problems/", new, body, 200, "",
                                          Some(row), {})
                      /\ UNCHANGED <<judging_criteria, comments, comment_groups, tag_groups, tags>>

\* the response of GET /problems/{problem_id} in the current state
read_problem_response(problem_id) ==
    IF problem_id \in DOMAIN problems
    THEN Response("GET", "/problems/{problem_id}", problem_id, NoBody, 200, "",
                  Some(problems[problem_id]), {})
    ELSE NotFound("GET", "/problems/{problem_id}", problem_id, NoBody, "Problem")

\* the status of GET on a path that names a row: 405 where no handler is
\* decorated with @app.get for the path
get_status(path, id) ==
    IF <<"GET", path>> \notin Routes THEN 405
    ELSE IF path = "/problems/{problem_id}" THEN read_problem_response(id).status
    ELSE 200

read_problem ==
    /\ \E problem_id \in PathIds : last' = read_problem_response(problem_id)
    /\ UNCHANGED db

\* a faulty variant of SetAttrs: model_dump() without exclude_unset, unset fields come as None
SetAttrs_Unset(row, update_data) ==
    [c \in DOMAIN row |-> IF c \in DOMAIN update_data THEN update_data[c] ELSE None]

\* for key, value in update_data.items(): setattr(db_row, key, value)
SetAttrs(row, update_data) ==
    [c \in DOMAIN row |-> IF c \in DOMAIN update_data THEN update_data[c] ELSE row[c]]

\* the loop of update_problem raises on these values
UpdateProblemRaises(update_data) ==
    \/ "tags" \in DOMAIN update_data /\ RelationshipRaises(update_data["tags"])
    \/ /\ "judging_criteria" \in DOMAIN update_data
       /\ RelationshipRaises(update_data["judging_criteria"])

\* the row the loop of update_problem leaves in the session
UpdatedProblem(row, update_data) ==
    LET scalars == Restrict(update_data, DOMAIN update_data \cap ScalarColumns)
        set == SetAttrs(row, scalars)
    IN  IF "tags" \in DOMAIN update_data THEN [set EXCEPT !.tags = {}] ELSE set

\* a faulty variant of update_problem: the fields set so far are committed before
\* the criteria are handled
update_problem_CommitsFields ==
    \E problem_id \in PathIds, body \in RequestBodies["ProblemUpdate"] :
        LET path == "/problems/{problem_id}" IN
        IF body \notin Accepted["ProblemUpdate"]
        THEN /\ last' = Unprocessable("PUT", path, problem_id, body)
             /\ UNCHANGED db
        ELSE IF problem_id \notin DOMAIN problems
        THEN /\ last' = NotFound("PUT", path, problem_id, body, "Problem")
             /\ UNCHANGED db
        ELSE LET update_data == model_dump_exclude_unset("ProblemUpdate", body)
                 scalars == Restrict(update_data, DOMAIN update_data \cap ScalarColumns)
                 row == SetAttrs(problems[problem_id], scalars)
             IN  /\ ~NotNullViolated(row, {"problem_text"})
                 /\ problems' = [problems EXCEPT ![problem_id] = row]
                 /\ last' = IF UpdateProblemRaises(update_data)
                            THEN ServerError("PUT", path, problem_id, body)
                            ELSE Response("PUT", path, problem_id, body, 200, "",
                                          Some(row), {})
                 /\ UNCHANGED <<judging_criteria, comments, comment_groups, tag_groups, tags>>

update_problem ==
    \E problem_id \in PathIds, body \in RequestBodies["ProblemUpdate"] :
        LET path == "/problems/{problem_id}" IN
        IF body \notin Accepted["ProblemUpdate"]
        THEN /\ last' = Unprocessable("PUT", path, problem_id, body)
             /\ UNCHANGED db
        ELSE IF problem_id \notin DOMAIN problems
        THEN /\ last' = NotFound("PUT", path, problem_id, body, "Problem")
             /\ UNCHANGED db
        ELSE LET update_data == model_dump_exclude_unset("ProblemUpdate", body)
                 row == UpdatedProblem(problems[problem_id], update_data)
             IN  IF UpdateProblemRaises(update_data) \/ NotNullViolated(row, {"problem_text"})
                 THEN /\ last' = ServerError("PUT", path, problem_id, body)
                      /\ UNCHANGED db
                 ELSE /\ problems' = [problems EXCEPT ![problem_id] = row]
                      /\ last' = Response("PUT", path, problem_id, body, 200, "", Some(row), {})
                      /\ UNCHANGED <<judging_criteria, comments, comment_groups,
                                     tag_groups, tags>>

\* db.delete(parent): the unit of work sets the foreign key of the children of a
\* relationship without delete cascade to NULL
Orphan(children, fk, parent_id) ==
    [id \in DOMAIN children |->
        IF children[id][fk] = Some(parent_id)
        THEN [children[id] EXCEPT ![fk] = None] ELSE children[id]]

\* a faulty variant of delete_problem: db.delete without db.commit
delete_problem_NoCommit ==
    /\ \E problem_id \in PathIds :
        last' = IF problem_id \notin DOMAIN problems
                THEN NotFound("DELETE", "/problems/{problem_id}", problem_id, NoBody, "Problem")
                ELSE Response("DELETE", "/problems/{problem_id}", problem_id, NoBody,
                              204, "", None, {})
    /\ UNCHANGED db

delete_problem ==
    \E problem_id \in PathIds :
        LET path == "/problems/{problem_id}" IN
        IF problem_id \notin DOMAIN problems
        THEN /\ last' = NotFound("DELETE", path, problem_id, NoBody, "Problem")
             /\ UNCHANGED db
        ELSE /\ problems' = Without(problems, problem_id)
             /\ comments' = Orphan(comments, "problem_id", problem_id)
             /\ judging_criteria' = Orphan(judging_criteria, "problem_id", problem_id)
             /\ last' = Response("DELETE", path, problem_id, NoBody, 204, "", None, {})
             /\ UNCHANGED <<comment_groups, tag_groups, tags>>

---------------------------------------------------------------------------
(* Handlers of tag groups, tags, comments and comment groups *)

\* the setattr loop over model_dump(exclude_unset=True), then commit and refresh:
\* the stored row after the update, columns the table does not have being dropped
UpdatedRow(row, update_data) ==
    SetAttrs(row, Restrict(update_data, DOMAIN update_data \cap DOMAIN row))

read_tag_groups ==
    /\ last' = Response("GET", "/tag-groups/", NoId, NoBody, 200, "", None, DOMAIN tag_groups)
    /\ UNCHANGED db

create_tag_group ==
    \E body \in RequestBodies["TagGroupCreate"] :
        IF body \notin Accepted["TagGroupCreate"]
        THEN /\ last' = Unprocessable("POST", "/tag-groups/", NoId, body)
             /\ UNCHANGED db
        ELSE LET row == model_dump("TagGroupCreate", body) IN
             \E new \in Ids \ DOMAIN tag_groups :
             /\ RowCount < MaxRows
             /\ tag_groups' = With(tag_groups, new, row)
             /\ last' = Response("POST", "/tag-groups/", new, body, 200, "", Some(row), {})
             /\ UNCHANGED <<problems, judging_criteria, comments, comment_groups, tags>>

update_tag_group ==
    \E tag_group_id \in PathIds, body \in RequestBodies["TagGroupUpdate"] :
        LET path == "/tag-groups/{tag_group_id}" IN
        IF body \notin Accepted["TagGroupUpdate"]
        THEN /\ last' = Unprocessable("PUT", path, tag_group_id, body)
             /\ UNCHANGED db
        ELSE IF tag_group_id \notin DOMAIN tag_groups
        THEN /\ last' = NotFound("PUT", path, tag_group_id, body, "TagGroup")
             /\ UNCHANGED db
        ELSE LET row == UpdatedRow(tag_groups[tag_group_id],
                                   model_dump_exclude_unset("TagGroupUpdate", body))
             IN  IF NotNullViolated(row, {"group_name"})
                 THEN /\ last' = ServerError("PUT", path, tag_group_id, body)
                      /\ UNCHANGED db
                 ELSE /\ tag_groups' = [tag_groups EXCEPT ![tag_group_id] = row]
                      /\ last' = Response("PUT", path, tag_group_id, body, 200, "",
                                          Some(row), {})
                      /\ UNCHANGED <<problems, judging_criteria, comments,
                                     comment_groups, tags>>

delete_tag_group ==
    \E tag_group_id \in PathIds :
        LET path == "/tag-groups/{tag_group_id}" IN
        IF tag_group_id \notin DOMAIN tag_groups
        THEN /\ last' = NotFound("DELETE", path, tag_group_id, NoBody, "TagGroup")
             /\ UNCHANGED db
        ELSE /\ tag_groups' = Without(tag_groups, tag_group_id)
             /\ tags' = Orphan(tags, "tag_group_id", tag_group_id)
             /\ last' = Response("DELETE", path, tag_group_id, NoBody, 204, "", None, {})
             /\ UNCHANGED <<problems, judging_criteria, comments, comment_groups>>

read_tags ==
    /\ \E tag_group_id \in PathIds :
        last' = Response("GET", "/tag-groups/{tag_group_id}/tags/", tag_group_id, NoBody,
                         200, "", None,
                         {t \in DOMAIN tags : tags[t].tag_group_id = Some(tag_group_id)})
    /\ UNCHANGED db

\* "tag.tag_group_id = tag_group_id" assigns to a name the schema TagCreate does
\* not declare, which BaseModel.__setattr__ refuses with ValueError
create_tag ==
    /\ \E tag_group_id \in PathIds, body \in RequestBodies["TagCreate"] :
        LET path == "/tag-groups/{tag_group_id}/tags/" IN
        last' = IF body \notin Accepted["TagCreate"]
                THEN Unprocessable("POST", path, tag_group_id, body)
                ELSE ServerError("POST", path, tag_group_id, body)
    /\ UNCHANGED db

update_tag ==
    \E tag_id \in PathIds, body \in RequestBodies["TagUpdate"] :
        LET path == "/tags/{tag_id}" IN
        IF body \notin Accepted["TagUpdate"]
        THEN /\ last' = Unprocessable("PUT", path, tag_id, body)
             /\ UNCHANGED db
        ELSE IF tag_id \notin DOMAIN tags
        THEN /\ last' = NotFound("PUT", path, tag_id, body, "Tag")
             /\ UNCHANGED db
        ELSE LET row == UpdatedRow(tags[tag_id], model_dump_exclude_unset("TagUpdate", body))
             IN  IF NotNullViolated(row, {"tag_name"})
                 THEN /\ last' = ServerError("PUT", path, tag_id, body)
                      /\ UNCHANGED db
                 ELSE /\ tags' = [tags EXCEPT ![tag_id] = row]
                      /\ last' = Response("PUT", path, tag_id, body, 200, "", Some(row), {})
                      /\ UNCHANGED <<problems, judging_criteria, comments,
                                     comment_groups, tag_groups>>

\* a faulty variant of read_comments: the problem of the path is looked up first
read_comments_ParentChecked ==
    /\ \E problem_id \in PathIds :
        LET path == "/problems/{problem_id}/comments/" IN
        last' = IF problem_id \notin DOMAIN problems
                THEN Response("GET", path, problem_id, NoBody, 404, "Problem not found",
                              None, {})
                ELSE Response("GET", path, problem_id, NoBody, 200, "", None,
                              {c \in DOMAIN comments :
                                  comments[c].problem_id = Some(problem_id)})
    /\ UNCHANGED db

read_comments ==
    /\ \E problem_id \in PathIds :
        last' = Response("GET", "/problems/{problem_id}/comments/", problem_id, NoBody,
                         200, "", None,
                         {c \in DOMAIN comments : comments[c].problem_id = Some(problem_id)})
    /\ UNCHANGED db

\* Comment(**comment_data) is given the keyword comment_group_id, which the mapped
\* class Comment does not have: the declarative constructor raises TypeError
create_comment ==
    /\ \E problem_id \in PathIds, body \in RequestBodies["CommentCreate"] :
        LET path == "/problems/{problem_id}/comments/" IN
        last' = IF body \notin Accepted["CommentCreate"]
                THEN Unprocessable("POST", path, problem_id, body)
                ELSE ServerError("POST", path, problem_id, body)
    /\ UNCHANGED db

update_comment ==
    \E comment_id \in PathIds, body \in RequestBodies["CommentUpdate"] :
        LET path == "/comments/{comment_id}" IN
        IF body \notin Accepted["CommentUpdate"]
        THEN /\ last' = Unprocessable("PUT", path, comment_id, body)
             /\ UNCHANGED db
        ELSE IF comment_id \notin DOMAIN comments
        THEN /\ last' = NotFound("PUT", path, comment_id, body, "Comment")
             /\ UNCHANGED db
        ELSE LET row == UpdatedRow(comments[comment_id],
                                   model_dump_exclude_unset("CommentUpdate", body))
             IN  /\ comments' = [comments EXCEPT ![comment_id] = row]
                 /\ last' = Response("PUT", path, comment_id, body, 200, "", Some(row), {})
                 /\ UNCHANGED <<problems, judging_criteria, comment_groups, tag_groups, tags>>

delete_comment ==
    \E comment_id \in PathIds :
        LET path == "/comments/{comment_id}" IN
        IF comment_id \notin DOMAIN comments
        THEN /\ last' = NotFound("DELETE", path, comment_id, NoBody, "Comment")
             /\ UNCHANGED db
        ELSE /\ comments' = Without(comments, comment_id)
             /\ last' = Response("DELETE", path, comment_id, NoBody, 204, "", None, {})
             /\ UNCHANGED <<problems, judging_criteria, comment_groups, tag_groups, tags>>

read_comment_groups ==
    /\ last' = Response("GET", "/comment-groups/", NoId, NoBody, 200, "", None,
                        DOMAIN comment_groups)
    /\ UNCHANGED db

create_comment_group ==
    \E body \in RequestBodies["CommentGroupCreate"] :
        IF body \notin Accepted["CommentGroupCreate"]
        THEN /\ last' = Unprocessable("POST", "/comment-groups/", NoId, body)
             /\ UNCHANGED db
        ELSE LET row == model_dump("CommentGroupCreate", body) IN
             \E new \in Ids \ DOMAIN comment_groups :
             /\ RowCount < MaxRows
             /\ comment_groups' = With(comment_groups, new, row)
             /\ last' = Response("POST", "/comment-groups/", new, body, 200, "", Some(row), {})
             /\ UNCHANGED <<problems, judging_criteria, comments, tag_groups, tags>>

update_comment_group ==
    \E comment_group_id \in PathIds, body \in RequestBodies["CommentGroupUpdate"] :
        LET path == "/comment-groups/{comment_group_id}" IN
        IF body \notin Accepted["CommentGroupUpdate"]
        THEN /\ last' = Unprocessable("PUT", path, comment_group_id, body)
             /\ UNCHANGED db
        ELSE IF comment_group_id \notin DOMAIN comment_groups
        THEN /\ last' = NotFound("PUT", path, comment_group_id, body, "CommentGroup")
             /\ UNCHANGED db
        ELSE LET row == UpdatedRow(comment_groups[comment_group_id],
                                   model_dump_exclude_unset("CommentGroupUpdate", body))
             IN  \* app/model.py defines no CommentGroup table: whether group_name
                 \* may be stored as null is open, and both outcomes are kept
                 \/ /\ NotNullViolated(row, {"group_name"})
                    /\ last' = ServerError("PUT", path, comment_group_id, body)
                    /\ UNCHANGED db
                 \/ /\ comment_groups' = [comment_groups EXCEPT ![comment_group_id] = row]
                    /\ last' = Response("PUT", path, comment_group_id, body, 200, "",
                                        Some(row), {})
                    /\ UNCHANGED <<problems, judging_criteria, comments, tag_groups, tags>>

delete_comment_group ==
    \E comment_group_id \in PathIds :
        LET path == "/comment-groups/{comment_group_id}" IN
        IF comment_group_id \notin DOMAIN comment_groups
        THEN /\ last' = NotFound("DELETE", path, comment_group_id, NoBody, "CommentGroup")
             /\ UNCHANGED db
        ELSE /\ comment_groups' = Without(comment_groups, comment_group_id)
             /\ last' = Response("DELETE", path, comment_group_id, NoBody, 204, "", None, {})
             /\ UNCHANGED <<problems, judging_criteria, comments, tag_groups, tags>>

\* a request whose path the router knows and whose method it has no handler for
method_not_allowed ==
    /\ \E method \in Methods, path \in Paths :
       \E id \in (IF PathTable(path) = <<>> /\ path \in CollectionPaths
                  THEN {NoId} ELSE PathIds) :
        /\ <<method, path>> \notin Routes
        /\ last' = MethodNotAllowed(method, path, id)
    /\ UNCHANGED db

---------------------------------------------------------------------------
(* Rows written straight to the database, as the test fixtures do with    *)
(* db_session.add(...); db_session.commit().  No response describes the   *)
(* database after such a write.                                           *)

seed_problem ==
    \E new \in Ids \ DOMAIN problems, tagged \in SUBSET DOMAIN tags :
        /\ RowCount < MaxRows
        /\ problems' = With(problems, new,
               [problem_text |-> Some(<<"a">>), answer |-> Some(<<"A">>),
                original_text |-> None, genre_id |-> Some(1), sort_order |-> None,
                tags |-> tagged])
        /\ last' = NoRequest
        /\ UNCHANGED <<judging_criteria, comments, comment_groups, tag_groups, tags>>

seed_judging_criteria ==
    \E new \in Ids \ DOMAIN judging_criteria,
       parent \in {None} \cup {Some(p) : p \in DOMAIN problems} :
        /\ RowCount < MaxRows
        /\ judging_criteria' = With(judging_criteria, new,
               [problem_id |-> parent, criteria_type |-> Some("accuracy"),
                criteria_text |-> Some("Must be correct")])
        /\ last' = NoRequest
        /\ UNCHANGED <<problems, comments, comment_groups, tag_groups, tags>>

seed_comment ==
    \E new \in Ids \ DOMAIN comments,
       parent \in {None} \cup {Some(p) : p \in DOMAIN problems} :
        /\ RowCount < MaxRows
        /\ comments' = With(comments, new,
               [problem_id |-> parent, title |-> Some(<<"t">>), body |-> Some(<<"C">>)])
        /\ last' = NoRequest
        /\ UNCHANGED <<problems, judging_criteria, comment_groups, tag_groups, tags>>

seed_tag ==
    \E new \in Ids \ DOMAIN tags,
       group \in {None} \cup {Some(g) : g \in DOMAIN tag_groups} :
        /\ RowCount < MaxRows
        /\ tags' = With(tags, new,
               [tag_group_id |-> group, tag_name |-> Some(<<"e">>), sort_order |-> None])
        /\ last' = NoRequest
        /\ UNCHANGED <<problems, judging_criteria, comments, comment_groups, tag_groups>>

---------------------------------------------------------------------------
(* The service: an empty database, then any request or fixture write.  A  *)
(* request is served in one step here; the steps of a request and its     *)
(* session are followed further below.                                    *)

\* no request is being served, and no thread has asked for a session yet
NoRequests ==
    /\ requests = <<>>
    /\ registry = <<>>
    /\ sessions = <<>>

Init ==
    /\ problems = <<>>
    /\ judging_criteria = <<>>
    /\ comments = <<>>
    /\ comment_groups = <<>>
    /\ tag_groups = <<>>
    /\ tags = <<>>
    /\ last = NoRequest
    /\ NoRequests

Next ==
    \/ seed_problem /\ UNCHANGED web
    \/ seed_judging_criteria /\ UNCHANGED web
    \/ seed_comment /\ UNCHANGED web
    \/ seed_tag /\ UNCHANGED web
    \/ read_problems({NoParams}) /\ UNCHANGED web
    \/ create_problem /\ UNCHANGED web
    \/ read_problem /\ UNCHANGED web
    \/ update_problem /\ UNCHANGED web
    \/ delete_problem /\ UNCHANGED web
    \/ read_tag_groups /\ UNCHANGED web
    \/ create_tag_group /\ UNCHANGED web
    \/ update_tag_group /\ UNCHANGED web
    \/ delete_tag_group /\ UNCHANGED web
    \/ read_tags /\ UNCHANGED web
    \/ create_tag /\ UNCHANGED web
    \/ update_tag /\ UNCHANGED web
    \/ read_comments /\ UNCHANGED web
    \/ create_comment /\ UNCHANGED web
    \/ update_comment /\ UNCHANGED web
    \/ delete_comment /\ UNCHANGED web
    \/ read_comment_groups /\ UNCHANGED web
    \/ create_comment_group /\ UNCHANGED web
    \/ update_comment_group /\ UNCHANGED web
    \/ delete_comment_group /\ UNCHANGED web
    \/ method_not_allowed /\ UNCHANGED web

Spec == Init /\ [][Next]_vars

---------------------------------------------------------------------------
(* The requests that address one stored row by its identifier, over a     *)
(* database filled by fixture writes and group creation                   *)

NextRows ==
    \/ seed_problem /\ UNCHANGED web
    \/ seed_judging_criteria /\ UNCHANGED web
    \/ seed_comment /\ UNCHANGED web
    \/ seed_tag /\ UNCHANGED web
    \/ create_tag_group /\ UNCHANGED web
    \/ create_comment_group /\ UNCHANGED web
    \/ read_problem /\ UNCHANGED web
    \/ update_problem /\ UNCHANGED web
    \/ delete_problem /\ UNCHANGED web
    \/ update_tag_group /\ UNCHANGED web
    \/ delete_tag_group /\ UNCHANGED web
    \/ update_tag /\ UNCHANGED web
    \/ update_comment /\ UNCHANGED web
    \/ delete_comment /\ UNCHANGED web
    \/ update_comment_group /\ UNCHANGED web
    \/ delete_comment_group /\ UNCHANGED web

SpecRows == Init /\ [][NextRows]_vars

---------------------------------------------------------------------------
(* The problem handlers alone, over fixture problems, criteria and tags *)

NextProblem ==
    \/ seed_problem /\ UNCHANGED web
    \/ seed_judging_criteria /\ UNCHANGED web
    \/ seed_tag /\ UNCHANGED web
    \/ create_problem /\ UNCHANGED web
    \/ read_problem /\ UNCHANGED web
    \/ update_problem /\ UNCHANGED web
    \/ delete_problem /\ UNCHANGED web

SpecProblem == Init /\ [][NextProblem]_vars

---------------------------------------------------------------------------
(* The handlers that list rows, over rows whose parents come and go *)

NextRead ==
    \/ seed_problem /\ UNCHANGED web
    \/ seed_comment /\ UNCHANGED web
    \/ seed_tag /\ UNCHANGED web
    \/ create_tag_group /\ UNCHANGED web
    \/ create_comment_group /\ UNCHANGED web
    \/ delete_problem /\ UNCHANGED web
    \/ delete_tag_group /\ UNCHANGED web
    \/ delete_comment /\ UNCHANGED web
    \/ delete_comment_group /\ UNCHANGED web
    \/ read_problems({NoParams}) /\ UNCHANGED web
    \/ read_tag_groups /\ UNCHANGED web
    \/ read_tags /\ UNCHANGED web
    \/ read_comments /\ UNCHANGED web
    \/ read_comment_groups /\ UNCHANGED web

SpecRead == Init /\ [][NextRead]_vars

---------------------------------------------------------------------------
(* The requests that create, update or delete rows, over a database that  *)
(* is empty or holds one parent row and one row that references it        *)

FamilyProblem ==
    [problem_text |-> Some(<<"a">>), answer |-> Some(<<"A">>), original_text |-> None,
     genre_id |-> Some(1), sort_order |-> None, tags |-> {}]

InitFamily ==
    /\ \E family \in {"none", "comment", "criteria", "tag"} :
        /\ problems = IF family \in {"comment", "criteria"}
                      THEN [id \in {1} |-> FamilyProblem] ELSE <<>>
        /\ comments = IF family = "comment"
                      THEN [id \in {1} |-> [problem_id |-> Some(1), title |-> Some(<<"t">>),
                                            body |-> Some(<<"C">>)]]
                      ELSE <<>>
        /\ judging_criteria =
                IF family = "criteria"
                THEN [id \in {1} |-> [problem_id |-> Some(1),
                                      criteria_type |-> Some("accuracy"),
                                      criteria_text |-> Some("Must be correct")]]
                ELSE <<>>
        /\ tag_groups = IF family = "tag"
                        THEN [id \in {1} |-> [group_name |-> Some(<<"g">>)]] ELSE <<>>
        /\ tags = IF family = "tag"
                  THEN [id \in {1} |-> [tag_group_id |-> Some(1), tag_name |-> Some(<<"e">>),
                                        sort_order |-> None]]
                  ELSE <<>>
    /\ comment_groups = <<>>
    /\ last = NoRequest
    /\ NoRequests

NextFamily ==
    \/ create_problem /\ UNCHANGED web
    \/ update_problem /\ UNCHANGED web
    \/ delete_problem /\ UNCHANGED web
    \/ create_tag_group /\ UNCHANGED web
    \/ update_tag_group /\ UNCHANGED web
    \/ delete_tag_group /\ UNCHANGED web
    \/ create_tag /\ UNCHANGED web
    \/ update_tag /\ UNCHANGED web
    \/ create_comment /\ UNCHANGED web
    \/ update_comment /\ UNCHANGED web
    \/ delete_comment /\ UNCHANGED web
    \/ create_comment_group /\ UNCHANGED web
    \/ update_comment_group /\ UNCHANGED web
    \/ delete_comment_group /\ UNCHANGED web

SpecFamily == InitFamily /\ [][NextFamily]_vars

---------------------------------------------------------------------------
(* Requests in flight together.  Each PUT /tags/{tag_id} goes through     *)
(* get_db (database.py) and the statements of update_tag (tag.py); the    *)
(* handlers are plain functions, so the framework runs get_db's           *)
(* "db = SessionLocal()", the handler and get_db's "db.close()" each on a *)
(* worker thread of its pool, whichever is idle.  SessionLocal is a       *)
(* scoped_session: it keeps one Session per thread and gives that Session *)
(* to every call made in the thread.                                      *)

Requests == 1..MaxRequests
\* the pool starts a worker thread only when a call finds none idle, so it has
\* at most as many threads as there are requests in flight
Threads == 1..MaxRequests

\* the tag row the requests address
StoredTag == [tag_group_id |-> None, tag_name |-> Some(<<"e">>), sort_order |-> None]
TagColumns == DOMAIN StoredTag

\* bodies that give a new value to one field and the stored value to the other
OnlyName == [tag_name |-> NewValue("tag_name"), sort_order |-> StoredTag.sort_order]
OnlyOrder == [tag_name |-> StoredTag.tag_name, sort_order |-> NewValue("sort_order")]

\* with them: a null tag_name, which the column refuses, and a body without
\* sort_order, which the schema refuses
WebBodies ==
    {OnlyName, OnlyOrder,
     [tag_name |-> None, sort_order |-> NewValue("sort_order")],
     [tag_name |-> NewValue("tag_name")]}

\* the requests: every body for the stored tag, one body for a tag that is not stored
WebInputs ==
    {[id |-> 1, body |-> body] : body \in WebBodies}
    \cup {[id |-> MaxId + 1, body |-> OnlyName]}

\* a request that has been received and has not yet asked for its session
Received(input) ==
    [id |-> input.id, body |-> input.body, pc |-> "get_db", session |-> 0,
     status |-> 0, row |-> None, detached |-> FALSE]

\* a Session outside a transaction that holds no object
NewSession == [state |-> "idle", objects |-> <<>>]

\* an object as the session holds it: the values it was loaded with, the
\* attributes whose loaded value is still valid (not expired), the present
\* values, and the attributes assigned since the load
Load(row) == [loaded |-> row, known |-> DOMAIN row, current |-> row, written |-> {}]

\* expire_all(), after commit or rollback
Expire(objects) ==
    [id \in DOMAIN objects |-> [objects[id] EXCEPT !.known = {}, !.written = {}]]

\* a query that returns a row whose object the session holds: expired
\* attributes take the stored values, the others stay as they are
Refetch(object, row) ==
    LET stale == DOMAIN row \ (object.known \cup object.written) IN
    [loaded |-> [c \in DOMAIN row |-> IF c \in stale THEN row[c] ELSE object.loaded[c]],
     known |-> object.known \cup stale,
     current |-> [c \in DOMAIN row |-> IF c \in stale THEN row[c] ELSE object.current[c]],
     written |-> object.written]

\* the columns the UPDATE of a flush sets: the attributes assigned whose value
\* differs from the loaded one, or whose loaded value is not known
Changed(object) ==
    {c \in object.written : c \notin object.known \/ object.current[c] # object.loaded[c]}

\* the row after the UPDATE of the flush
Flushed(row, object) ==
    [c \in DOMAIN row |-> IF c \in Changed(object) THEN object.current[c] ELSE row[c]]

\* the request has its session and has not yet closed it
Holding(r) == requests[r].pc \notin {"get_db", "done"}

Step(r, pc, status) == [requests EXCEPT ![r].pc = pc, ![r].status = status]

\* get_db up to its yield: db = SessionLocal(), run in some worker thread; then
\* the body is validated
get_db_enter(r) ==
    /\ requests[r].pc = "get_db"
    /\ \E thread \in Threads :
        /\ registry' = IF thread \in DOMAIN registry THEN registry
                       ELSE With(registry, thread, thread)
        /\ sessions' = IF thread \in DOMAIN registry THEN sessions
                       ELSE With(sessions, thread, NewSession)
        /\ requests' = [requests EXCEPT
                ![r].session = registry'[thread],
                ![r].pc = IF Validate("TagUpdate", requests[r].body)
                          THEN "query" ELSE "close",
                ![r].status = IF Validate("TagUpdate", requests[r].body) THEN 0 ELSE 422]
    /\ UNCHANGED <<db, last>>

\* db_tag = db.query(Tag).filter(Tag.tag_id == tag_id).first(), and the 404
update_tag_query(r) ==
    LET s == requests[r].session
        tag_id == requests[r].id
        held == sessions[s].objects
    IN  /\ requests[r].pc = "query"
        /\ IF sessions[s].state = "failed"
           THEN /\ requests' = Step(r, "close", 500)
                /\ UNCHANGED sessions
           ELSE IF tag_id \notin DOMAIN tags
           THEN /\ requests' = Step(r, "close", 404)
                /\ sessions' = [sessions EXCEPT ![s].state = "active"]
           ELSE /\ requests' = [Step(r, "setattr", 0) EXCEPT ![r].detached = FALSE]
                /\ sessions' = [sessions EXCEPT
                        ![s].state = "active",
                        ![s].objects =
                            With(held, tag_id,
                                 IF tag_id \in DOMAIN held
                                 THEN Refetch(held[tag_id], tags[tag_id])
                                 ELSE Load(tags[tag_id]))]
        /\ UNCHANGED <<db, last, registry>>

\* the setattr loop over tag.model_dump(exclude_unset=True); an object that was
\* expunged from its session changes, and the session does not see it
update_tag_setattr(r) ==
    LET s == requests[r].session
        tag_id == requests[r].id
        update_data == model_dump_exclude_unset("TagUpdate", requests[r].body)
    IN  /\ requests[r].pc = "setattr"
        /\ requests' = Step(r, "commit", 0)
        /\ sessions' =
              IF requests[r].detached THEN sessions
              ELSE [sessions EXCEPT ![s].objects[tag_id] =
                      [@ EXCEPT !.current = SetAttrs(@, update_data),
                                !.written = @ \cup (DOMAIN update_data \cap TagColumns)]]
        /\ UNCHANGED <<db, last, registry>>

\* db.commit(): the flush writes the changed columns of every object the session
\* holds, the transaction ends and the objects are expired; a NULL tag_name is
\* refused by the column and rolls the transaction back
update_tag_commit(r) ==
    LET s == requests[r].session
        held == sessions[s].objects
        written == [id \in DOMAIN tags |->
                        IF id \in DOMAIN held THEN Flushed(tags[id], held[id])
                        ELSE tags[id]]
    IN  /\ requests[r].pc = "commit"
        /\ IF sessions[s].state = "failed"
           THEN /\ requests' = Step(r, "close", 500)
                /\ UNCHANGED <<sessions, tags>>
           ELSE IF \E id \in DOMAIN written : NotNullViolated(written[id], {"tag_name"})
           THEN /\ requests' = Step(r, "close", 500)
                /\ sessions' = [sessions EXCEPT ![s].state = "failed",
                                                ![s].objects = Expire(held)]
                /\ UNCHANGED tags
           ELSE /\ requests' = Step(r, "refresh", 0)
                /\ sessions' = [sessions EXCEPT ![s].state = "idle",
                                                ![s].objects = Expire(held)]
                /\ tags' = written
        /\ UNCHANGED <<problems, judging_criteria, comments, comment_groups, tag_groups,
                       last, registry>>

\* db.refresh(db_tag); return db_tag.  An object that is no longer in the
\* session cannot be refreshed
update_tag_refresh(r) ==
    LET s == requests[r].session
        tag_id == requests[r].id
    IN  /\ requests[r].pc = "refresh"
        /\ IF \/ requests[r].detached
              \/ sessions[s].state = "failed"
              \/ tag_id \notin DOMAIN tags
           THEN /\ requests' = Step(r, "close", 500)
                /\ UNCHANGED sessions
           ELSE /\ requests' = [Step(r, "close", 200) EXCEPT ![r].row = Some(tags[tag_id])]
                /\ sessions' = [sessions EXCEPT
                        ![s].state = "active",
                        ![s].objects[tag_id] = Load(tags[tag_id])]
        /\ UNCHANGED <<db, last, registry>>

\* the response of a request that has come to its end
Answer(request) ==
    LET path == "/tags/{tag_id}" IN
    CASE request.status = 200 ->
            Response("PUT", path, request.id, request.body, 200, "", request.row, {})
      [] request.status = 404 -> NotFound("PUT", path, request.id, request.body, "Tag")
      [] request.status = 422 -> Unprocessable("PUT", path, request.id, request.body)
      [] OTHER -> ServerError("PUT", path, request.id, request.body)

\* the objects of the other requests that work in the session are expunged with it
Expunged(r) ==
    [q \in Requests |->
        IF /\ q # r
           /\ requests[q].session = requests[r].session
           /\ requests[q].pc \in {"setattr", "commit", "refresh"}
        THEN [requests[q] EXCEPT !.detached = TRUE]
        ELSE requests[q]]

\* a faulty variant of get_db_exit: db.close() after the yield without "finally",
\* which is not reached when the request ends in an error
get_db_exit_NoFinally(r) ==
    /\ requests[r].pc = "close"
    /\ IF requests[r].status = 200
       THEN /\ sessions' = [sessions EXCEPT ![requests[r].session] = NewSession]
            /\ requests' = [Expunged(r) EXCEPT ![r].pc = "done"]
       ELSE /\ requests' = [requests EXCEPT ![r].pc = "done"]
            /\ UNCHANGED sessions
    /\ last' = Answer(requests[r])
    /\ UNCHANGED <<db, registry>>

\* get_db after its yield, on every way out of the request: finally: db.close(),
\* which rolls back the transaction and expunges every object
get_db_exit(r) ==
    /\ requests[r].pc = "close"
    /\ sessions' = [sessions EXCEPT ![requests[r].session] = NewSession]
    /\ requests' = [Expunged(r) EXCEPT ![r].pc = "done"]
    /\ last' = Answer(requests[r])
    /\ UNCHANGED <<db, registry>>

InitWeb ==
    /\ tags = [id \in {1} |-> StoredTag]
    /\ problems = <<>>
    /\ judging_criteria = <<>>
    /\ comments = <<>>
    /\ comment_groups = <<>>
    /\ tag_groups = <<>>
    /\ last = NoRequest
    /\ requests \in [Requests -> {Received(input) : input \in WebInputs}]
    /\ registry = <<>>
    /\ sessions = <<>>

NextWeb ==
    \/ \E r \in Requests : get_db_enter(r)
    \/ \E r \in Requests : update_tag_query(r)
    \/ \E r \in Requests : update_tag_setattr(r)
    \/ \E r \in Requests : update_tag_commit(r)
    \/ \E r \in Requests : update_tag_refresh(r)
    \/ \E r \in Requests : get_db_exit(r)

SpecWeb == InitWeb /\ [][NextWeb]_vars

---------------------------------------------------------------------------
(* The listing over a seeded database: problems, two tags and the         *)
(* problem_tag rows between them, then GET /problems/ with any parameters *)

ListedRow(text, genre, tagged) ==
    [problem_text |-> Some(text), answer |-> Some(<<"A">>), original_text |-> None,
     genre_id |-> genre, sort_order |-> None, tags |-> tagged]

ListedRows ==
    { ListedRow(<<"A", "b">>, Some(1), {1}),
      ListedRow(<<"A", "b">>, Some(0), {}),
      ListedRow(<<"b">>, None, {2}),
      ListedRow(<<"b">>, Some(1), {1, 2}),
      ListedRow(<<"_">>, Some(0), {1}) }

ListedTags ==
    [t \in {1, 2} |-> [tag_group_id |-> None, tag_name |-> Some(<<"e">>), sort_order |-> None]]

\* the filters in every combination, and the keywords of pattern characters alone
ListParams ==
    [genre_id : {None, Some(0), Some(1)},
     tag_id : {None, Some(<<>>), Some(<<1>>), Some(<<2, 3>>)},
     keyword : {None, Some(<<>>), Some(<<"A", "B">>)},
     order_by : {None}, order_dir : {"ASC"}]
    \cup
    [genre_id : {None}, tag_id : {None},
     keyword : {Some(<<"_">>), Some(<<"%">>)},
     order_by : {None}, order_dir : {"ASC"}]

InitList ==
    /\ \E n \in 0..MaxListed : problems \in [1..n -> ListedRows]
    /\ tags = ListedTags
    /\ judging_criteria = <<>>
    /\ comments = <<>>
    /\ comment_groups = <<>>
    /\ tag_groups = <<>>
    /\ last = NoRequest
    /\ NoRequests

NextList == read_problems(ListParams) /\ UNCHANGED web

SpecList == InitList /\ [][NextList]_vars

---------------------------------------------------------------------------
(* The listing with order_by and order_dir, over stored problems whose    *)
(* texts and genres differ                                                *)

OrderedRows ==
    { ListedRow(<<"P", "1">>, Some(2), {1}),
      ListedRow(<<"P", "2">>, Some(1), {}),
      ListedRow(<<"P", "2">>, None, {2}),
      ListedRow(<<"P", "1">>, Some(1), {}) }

OrderBys ==
    { None, Some(<<>>), Some(<<",">>),
      Some(<<"problem_text">>),
      Some(<<"genre_id", ",", "problem_text">>),
      Some(<<"zzz">>),
      Some(<<"zzz", ",", "problem_text", ",">>),
      Some(<<"metadata">>),
      Some(<<"problem_text", ",", "tags">>),
      Some(<<"tag_name">>),
      Some(<<"tag_id">>) }

\* every order_by with every order_dir, and the ordered listing under a filter
OrderParams ==
    [genre_id : {None}, tag_id : {None}, keyword : {None},
     order_by : OrderBys, order_dir : {"ASC", "DESC", "desc"}]
    \cup
    [genre_id : {None}, tag_id : {None}, keyword : {Some(<<"2">>)},
     order_by : {None, Some(<<"problem_text">>)}, order_dir : {"DESC"}]

InitOrder ==
    /\ \E n \in 0..MaxListed : problems \in [1..n -> OrderedRows]
    /\ tags = ListedTags
    /\ judging_criteria = <<>>
    /\ comments = <<>>
    /\ comment_groups = <<>>
    /\ tag_groups = <<>>
    /\ last = NoRequest
    /\ NoRequests

NextOrder == read_problems(OrderParams) /\ UNCHANGED web

SpecOrder == InitOrder /\ [][NextOrder]_vars

---------------------------------------------------------------------------
(* Properties of the listing, stated over SpecList *)

IsListing == last.method = "GET" /\ last.path = "/problems/"

\* text contains keyword as a literal substring, letter case ignored
ContainsCI(text, keyword) ==
    \E i \in 0..(Len(text) - Len(keyword)) :
        LowerStr(SubSeq(text, i + 1, i + Len(keyword))) = LowerStr(keyword)

\* C6: a listing with a non-empty tag_id list and no other filter returns exactly
\* the problems that carry at least one tag of the list
C6_TagFilterIsExistential ==
    (IsListing /\ TruthySeq(last.body.tag_id)
        /\ IsNone(last.body.genre_id) /\ IsNone(last.body.keyword))
    => last.result =
        {id \in DOMAIN problems :
            problems[id].tags \cap Range(Val(last.body.tag_id)) # {}}

\* a listing by two tag ids that returns a problem carrying only one of them and
\* leaves out a problem carrying none
C6_Witness ==
    /\ IsListing /\ ~IsNone(last.body.tag_id)
    /\ Len(Val(last.body.tag_id)) = 2
    /\ IsNone(last.body.genre_id) /\ IsNone(last.body.keyword)
    /\ \E id \in last.result : ~(Range(Val(last.body.tag_id)) \subseteq problems[id].tags)
    /\ \E id \in DOMAIN problems : id \notin last.result

\* C7: a listing by keyword alone returns exactly the problems whose text contains
\* the keyword as a literal substring, case-insensitively, for every keyword
C7_KeywordIsLiteralSubstring ==
    (IsListing /\ ~IsNone(last.body.keyword)
        /\ IsNone(last.body.genre_id) /\ IsNone(last.body.tag_id))
    => last.result =
        {id \in DOMAIN problems :
            ContainsCI(Val(problems[id].problem_text), Val(last.body.keyword))}

\* C8: a listing by genre_id alone returns exactly the problems of that genre, for
\* every integer genre_id, 0 included
C8_GenreFilterForEveryInteger ==
    (IsListing /\ ~IsNone(last.body.genre_id)
        /\ IsNone(last.body.tag_id) /\ IsNone(last.body.keyword))
    => last.result =
        {id \in DOMAIN problems : problems[id].genre_id = last.body.genre_id}

\* C9: the listing for several filters is the intersection of the listings each
\* filter gives alone
C9_FiltersComposeWithAnd ==
    IsListing
    => last.result =
        Listing([NoParams EXCEPT !.genre_id = last.body.genre_id])
        \cap Listing([NoParams EXCEPT !.tag_id = last.body.tag_id])
        \cap Listing([NoParams EXCEPT !.keyword = last.body.keyword])

\* a listing by genre, tag and keyword at once that returns a row and leaves out
\* a row which the genre filter alone and the tag filter alone both return
C9_Witness ==
    /\ IsListing
    /\ TruthyInt(last.body.genre_id) /\ TruthySeq(last.body.tag_id)
    /\ TruthySeq(last.body.keyword)
    /\ last.result # {}
    /\ \E id \in (DOMAIN problems) \ last.result :
        /\ id \in Listing([NoParams EXCEPT !.genre_id = last.body.genre_id])
        /\ id \in Listing([NoParams EXCEPT !.tag_id = last.body.tag_id])

\* C10: an empty tag_id list, or an empty keyword, gives the listing of the same
\* request without that parameter
C10_EmptyIsNoFilter ==
    /\ (IsListing /\ last.body.tag_id = Some(<<>>))
        => last.result = Listing([last.body EXCEPT !.tag_id = None])
    /\ (IsListing /\ last.body.keyword = Some(<<>>))
        => last.result = Listing([last.body EXCEPT !.keyword = None])

\* a listing with an empty tag_id list and an empty keyword that returns problems
C10_Witness ==
    /\ IsListing
    /\ last.body.tag_id = Some(<<>>) /\ last.body.keyword = Some(<<>>)
    /\ IsNone(last.body.genre_id)
    /\ last.result = DOMAIN problems /\ last.result # {}

---------------------------------------------------------------------------
(* Properties of the handlers that address one row *)

\* the schema a route validates its body against
BodySchema(method, path) ==
    CASE method = "POST" /\ path = "/problems/" -> "ProblemCreate"
      [] method = "PUT" /\ path = "/problems/{problem_id}" -> "ProblemUpdate"
      [] method = "POST" /\ path = "/tag-groups/" -> "TagGroupCreate"
      [] method = "PUT" /\ path = "/tag-groups/{tag_group_id}" -> "TagGroupUpdate"
      [] method = "POST" /\ path = "/tag-groups/{tag_group_id}/tags/" -> "TagCreate"
      [] method = "PUT" /\ path = "/tags/{tag_id}" -> "TagUpdate"
      [] method = "POST" /\ path = "/problems/{problem_id}/comments/" -> "CommentCreate"
      [] method = "PUT" /\ path = "/comments/{comment_id}" -> "CommentUpdate"
      [] method = "POST" /\ path = "/comment-groups/" -> "CommentGroupCreate"
      [] method = "PUT" /\ path = "/comment-groups/{comment_group_id}" -> "CommentGroupUpdate"
      [] OTHER -> "none"

UpdatePaths ==
    {"/problems/{problem_id}", "/tag-groups/{tag_group_id}", "/tags/{tag_id}",
     "/comments/{comment_id}", "/comment-groups/{comment_group_id}"}

\* the row is still stored and keeps every column the body does not name
FrameKept(old, new, id, body) ==
    /\ id \in DOMAIN new
    /\ \A c \in (DOMAIN old[id]) \ (DOMAIN body) : new[id][c] = old[id][c]

RequiredByDataModel(schema) ==
    IF schema \in {"ProblemCreate", "TagGroupCreate", "TagCreate",
                   "CommentGroupCreate", "CommentCreate"}
    THEN {f \in SchemaFields(schema) : ~Nullable(schema, f)}
    ELSE {}

\* C2: a body is refused by validation only for a field the data model requires;
\* the create and update bodies of the tests, which omit optional fields, get 200
C2_OptionalFieldsMayBeOmitted ==
    /\ last.status = 422 =>
          \E f \in RequiredByDataModel(BodySchema(last.method, last.path)) :
              f \notin DOMAIN last.body \/ IsNone(last.body[f])
    /\ (/\ last.method = "POST" /\ last.path = "/problems/"
        /\ last.body = Restrict([f \in SchemaFields("ProblemCreate") |-> NewValue(f)],
                                SchemaFields("ProblemCreate") \ {"original_text"}))
          => last.status = 200
    /\ (/\ last.method = "POST" /\ last.path = "/tag-groups/{tag_group_id}/tags/"
        /\ last.existed /\ DOMAIN last.body = {"tag_name"})
          => last.status = 200
    /\ (/\ last.method = "PUT" /\ last.path = "/problems/{problem_id}"
        /\ last.existed /\ DOMAIN last.body = {"problem_text", "answer"})
          => last.status = 200
    /\ (/\ last.method = "PUT" /\ last.path = "/tags/{tag_id}"
        /\ last.existed /\ DOMAIN last.body = {"tag_name"})
          => last.status = 200

\* C3: after DELETE /problems/{id} answered 204, GET /problems/{id} answers 404
\* and GET /problems/ does not list the problem
C3_DeletedProblemIsGone ==
    (last.method = "DELETE" /\ last.path = "/problems/{problem_id}" /\ last.status = 204)
    => /\ read_problem_response(last.id).status = 404
       /\ last.id \notin Listing(NoParams)

\* a stored problem has been deleted with 204
C3_Witness ==
    /\ last.method = "DELETE" /\ last.path = "/problems/{problem_id}"
    /\ last.status = 204 /\ last.existed

\* C4: DELETE on an existing tag group or tag answers 204, and GET on the same
\* path then answers 404
C4_TagAndGroupDeleteThenNotFound ==
    (/\ last.method = "DELETE"
     /\ last.path \in {"/tag-groups/{tag_group_id}", "/tags/{tag_id}"}
     /\ last.existed)
    => /\ last.status = 204
       /\ get_status(last.path, last.id) = 404

\* the requests C5 names
LookupRoutes ==
    { <<"GET", "/problems/{problem_id}">>,
      <<"PUT", "/problems/{problem_id}">>,
      <<"DELETE", "/problems/{problem_id}">>,
      <<"PUT", "/comments/{comment_id}">>,
      <<"DELETE", "/comments/{comment_id}">>,
      <<"PUT", "/comment-groups/{comment_group_id}">>,
      <<"DELETE", "/comment-groups/{comment_group_id}">>,
      <<"PUT", "/tag-groups/{tag_group_id}">>,
      <<"DELETE", "/tag-groups/{tag_group_id}">>,
      <<"PUT", "/tags/{tag_id}">> }

\* the entity type the message of each path names
EntityName(path) ==
    CASE path = "/problems/{problem_id}" -> "Problem"
      [] path = "/comments/{comment_id}" -> "Comment"
      [] path = "/comment-groups/{comment_group_id}" -> "CommentGroup"
      [] path = "/tag-groups/{tag_group_id}" -> "TagGroup"
      [] path = "/tags/{tag_id}" -> "Tag"

\* the message that names the entity type
NotFoundDetail == [path \in UpdatePaths |-> EntityName(path) \o " not found"]

\* C5: read-one, update (with a body that fits the schema) and delete on an
\* identifier that names no row answer 404 with "<Entity> not found" and leave
\* every table as it was
C5_MissingRowIsNotFound ==
    [][(/\ last' # last
        /\ <<last'.method, last'.path>> \in LookupRoutes
        /\ last'.id \notin DOMAIN PathTable(last'.path)
        /\ last'.method = "PUT"
              => last'.body \in Accepted[BodySchema("PUT", last'.path)])
       => /\ last'.status = 404
          /\ last'.detail = NotFoundDetail[last'.path]
          /\ db' = db]_vars

\* an update with a fitting body on a missing identifier got 404 while a row is stored
C5_Witness ==
    /\ last.method = "PUT" /\ last.path \in UpdatePaths
    /\ ~last.existed /\ last.status = 404
    /\ RowCount > 0

---------------------------------------------------------------------------
(* Properties of the ordered listing, stated over SpecOrder *)

\* the tokens of the order_by of the request served last
LastTokens == IF TruthySeq(last.body.order_by) THEN Split(Val(last.body.order_by)) ELSE <<>>

\* the ORDER BY keys of the tokens that name a column of Problem
RECURSIVE ColumnKeys(_)
ColumnKeys(tokens) ==
    IF tokens = <<>> THEN <<>>
    ELSE (IF Head(tokens) \in ProblemColumns THEN <<<<"Problem", Head(tokens)>>>> ELSE <<>>)
         \o ColumnKeys(Tail(tokens))

\* the rows come in an order that agrees with the keys, NULLs at one end
SortedBy(rows, keys, desc) ==
    \E null_low \in BOOLEAN :
        \A i, j \in 1..Len(rows) :
            i < j => ~Precedes(rows[j], rows[i], keys, desc, null_low)

\* C11: a listing whose order_by holds tokens that are no sort field (none of
\* them a field of Tag) answers 200 with the filtered result, ordered by the
\* tokens that name a column of Problem alone
C11_UnrecognisedOrderTokensAreDropped ==
    (/\ IsListing
     /\ TruthySeq(last.body.order_by)
     /\ \A i \in 1..Len(LastTokens) :
           LastTokens[i] \in ProblemColumns \cup ProblemAttributes
           \/ LastTokens[i] \notin TagAttributes)
    => /\ last.status = 200
       /\ last.result = Listing(last.body)
       /\ last.rows \in Arrangements(last.result)
       /\ SortedBy(last.rows, ColumnKeys(LastTokens), last.body.order_dir = "DESC")

\* C12: a listing whose order_by names columns of Problem returns the filtered
\* rows sorted by these keys in the order given, every key descending when
\* order_dir is "DESC" and ascending for every other order_dir; with DESC on
\* problem_text a problem "P2" comes before a problem "P1"
C12_SortedByKeysAndDirection ==
    (/\ IsListing
     /\ TruthySeq(last.body.order_by)
     /\ \A i \in 1..Len(LastTokens) : LastTokens[i] \in ProblemColumns)
    => /\ last.status = 200
       /\ last.result = Listing(last.body)
       /\ last.rows \in Arrangements(last.result)
       /\ SortedBy(last.rows, ColumnKeys(LastTokens), last.body.order_dir = "DESC")
       /\ (last.body.order_by = Some(<<"problem_text">>) /\ last.body.order_dir = "DESC")
             => \A i, j \in 1..Len(last.rows) :
                   (/\ problems[last.rows[i]].problem_text = Some(<<"P", "2">>)
                    /\ problems[last.rows[j]].problem_text = Some(<<"P", "1">>))
                   => i < j

\* order_by=problem_text with order_dir=DESC has listed "P2" and then "P1"
C12_Witness ==
    /\ IsListing /\ last.status = 200
    /\ last.body.order_by = Some(<<"problem_text">>) /\ last.body.order_dir = "DESC"
    /\ Len(last.rows) = 2
    /\ problems[last.rows[1]].problem_text = Some(<<"P", "2">>)
    /\ problems[last.rows[2]].problem_text = Some(<<"P", "1">>)

\* C13: without order_by, a listing request served again over the same stored
\* rows returns them in the same order
C13_DefaultOrderIsDeterministic ==
    [][(/\ IsListing /\ IsListing'
        /\ last.status = 200 /\ last'.status = 200
        /\ IsNone(last'.body.order_by)
        /\ last'.body = last.body
        /\ db' = db)
       => last'.rows = last.rows]_vars

---------------------------------------------------------------------------
(* Properties of problems and their judging criteria *)

\* the criteria rows that reference a problem
CriteriaOf(problem_id) ==
    {c \in DOMAIN judging_criteria : judging_criteria[c].problem_id = Some(problem_id)}

\* the request served last carries a list of judging criteria in a fitting body
SuppliesCriteria(request) ==
    /\ request.body \in Accepted[BodySchema(request.method, request.path)]
    /\ "judging_criteria" \in DOMAIN request.body
    /\ ~IsNone(request.body["judging_criteria"])

\* C14: creating a problem with n judging criteria answers 200 and stores the
\* problem row and exactly n criteria rows that reference it
C14_CreateStoresEveryCriterion ==
    (/\ last.method = "POST" /\ last.path = "/problems/"
     /\ SuppliesCriteria(last)
     /\ \A f \in {"original_text", "genre_id", "sort_order"} : ~IsNone(last.body[f])
     /\ last.body["tags"] = Some(<<>>))
    => /\ last.status = 200
       /\ last.id \in DOMAIN problems
       /\ Cardinality(CriteriaOf(last.id)) = Len(Val(last.body["judging_criteria"]))

\* C15: updating an existing problem with a body that carries judging criteria
\* answers 200, adds one criteria row that references the problem per criterion
\* supplied, and keeps every criteria row stored before with its type and text
C15_UpdateAddsCriteria ==
    [][\A id \in Ids :
          (/\ last' # last
           /\ last'.method = "PUT" /\ last'.path = "/problems/{problem_id}"
           /\ last'.id = id /\ id \in DOMAIN problems
           /\ SuppliesCriteria(last')
           /\ last'.body["tags"] = Some(<<>>))
          => /\ last'.status = 200
             /\ \A c \in DOMAIN judging_criteria :
                   c \in DOMAIN judging_criteria'
                   /\ judging_criteria'[c] = judging_criteria[c]
             /\ Cardinality(CriteriaOf(id)') =
                   Cardinality(CriteriaOf(id)) + Len(Val(last'.body["judging_criteria"]))]_vars

\* C16: a problem create, or an update of a stored problem, that carries judging
\* criteria and does not answer 200 answers 500 and leaves every table as it was:
\* no problem row added, no field of a problem changed, no criteria row stored
C16_FailedCriteriaLeaveNothing ==
    [][(/\ last' # last
        /\ \/ last'.method = "POST" /\ last'.path = "/problems/"
           \/ /\ last'.method = "PUT" /\ last'.path = "/problems/{problem_id}"
              /\ last'.id \in DOMAIN problems
        /\ SuppliesCriteria(last')
        /\ Len(Val(last'.body["judging_criteria"])) > 0
        /\ last'.status # 200)
       => /\ last'.status = 500
          /\ db' = db]_vars

\* an update that carries a criterion and new field values has failed on a stored
\* problem, whose text is not the text of the body
C16_Witness ==
    /\ last.method = "PUT" /\ last.path = "/problems/{problem_id}"
    /\ SuppliesCriteria(last)
    /\ Len(Val(last.body["judging_criteria"])) > 0
    /\ last.status = 500
    /\ last.id \in DOMAIN problems
    /\ problems[last.id].problem_text # last.body["problem_text"]

\* C19: creating a problem from a fitting body whose tags are stored answers 200,
\* and reading the returned identifier gives the fields, the tags and the
\* judging criteria of the body
C19_CreateThenReadGivesInput ==
    (/\ last.method = "POST" /\ last.path = "/problems/"
     /\ last.body \in Accepted["ProblemCreate"]
     /\ Range(Val(last.body["tags"])) \subseteq DOMAIN tags)
    => /\ last.status = 200
       /\ read_problem_response(last.id).status = 200
       /\ LET row == Val(read_problem_response(last.id).row) IN
          /\ \A c \in ScalarColumns : row[c] = last.body[c]
          /\ row.tags = Range(Val(last.body["tags"]))
          /\ Cardinality(CriteriaOf(last.id)) = Len(Val(last.body["judging_criteria"]))

---------------------------------------------------------------------------
(* Properties of validation and of the listings *)

\* C17: a create or update request whose body does not fit the schema is answered
\* 422 with the empty JSON object as content, and writes no row
C17_ValidationFailureIsEmpty422 ==
    [][(/\ last' # last
        /\ BodySchema(last'.method, last'.path) \in Schemas
        /\ last'.body \notin Accepted[BodySchema(last'.method, last'.path)])
       => /\ last'.status = 422
          /\ last'.detail = "{}"
          /\ db' = db]_vars

\* C18: creating a comment with the empty text as body is refused by validation
C18_EmptyCommentBodyIsRejected ==
    (/\ last.method = "POST" /\ last.path = "/problems/{problem_id}/comments/"
     /\ DOMAIN last.body = SchemaFields("CommentCreate")
     /\ last.body["body"] = Some(<<>>))
    => /\ last.status = 422
       /\ last.body \notin Accepted["CommentCreate"]

ListPaths ==
    {"/problems/", "/tag-groups/", "/comment-groups/",
     "/tag-groups/{tag_group_id}/tags/", "/problems/{problem_id}/comments/"}

\* the rows a listing path names in the current state
RowsNamed(path, id) ==
    CASE path = "/problems/" -> DOMAIN problems
      [] path = "/tag-groups/" -> DOMAIN tag_groups
      [] path = "/comment-groups/" -> DOMAIN comment_groups
      [] path = "/tag-groups/{tag_group_id}/tags/" ->
            {t \in DOMAIN tags : tags[t].tag_group_id = Some(id)}
      [] path = "/problems/{problem_id}/comments/" ->
            {c \in DOMAIN comments : comments[c].problem_id = Some(id)}

\* C20: each of the five listings answers 200 with the rows its path names, the
\* empty collection when there is none, whether or not the parent of the path
\* is stored
C20_ListingNeverFailsForLackOfRows ==
    (last.method = "GET" /\ last.path \in ListPaths)
    => /\ last.status = 200
       /\ last.result = RowsNamed(last.path, last.id)
       /\ RowsNamed(last.path, last.id) = {} => last.result = {}

\* the comments of a problem that is not stored have been listed, empty, while a
\* comment is stored
C20_Witness ==
    /\ last.method = "GET" /\ last.path = "/problems/{problem_id}/comments/"
    /\ last.id \notin DOMAIN problems
    /\ DOMAIN comments # {}
    /\ last.status = 200 /\ last.result = {}

---------------------------------------------------------------------------
(* Properties of the rows that belong to a parent *)

\* C23: a tag created under a tag group, and a comment created under a problem,
\* is answered 200 with the stored row, which carries the identifier of the path
C23_CreatedChildCarriesPathId ==
    /\ (/\ last.method = "POST" /\ last.path = "/tag-groups/{tag_group_id}/tags/"
        /\ last.body \in Accepted["TagCreate"])
       => /\ last.status = 200
          /\ ~IsNone(last.row)
          /\ Val(last.row).tag_group_id = Some(last.id)
          /\ \E t \in DOMAIN tags : tags[t] = Val(last.row)
    /\ (/\ last.method = "POST" /\ last.path = "/problems/{problem_id}/comments/"
        /\ last.body \in Accepted["CommentCreate"])
       => /\ last.status = 200
          /\ ~IsNone(last.row)
          /\ Val(last.row).problem_id = Some(last.id)
          /\ \E c \in DOMAIN comments : comments[c] = Val(last.row)

\* every row of children names a row of parents in the column fk
References(children, fk, parents) ==
    \A id \in DOMAIN children :
        /\ ~IsNone(children[id][fk])
        /\ Val(children[id][fk]) \in DOMAIN parents

\* C24: every comment and every judging criterion references a stored problem,
\* and every tag a stored tag group, after any create, update or delete request
C24_ChildrenReferenceStoredParents ==
    /\ References(comments, "problem_id", problems)
    /\ References(judging_criteria, "problem_id", problems)
    /\ References(tags, "tag_group_id", tag_groups)

---------------------------------------------------------------------------
(* Properties of order_by tokens that name no column of Problem, stated   *)
(* over SpecOrder                                                         *)

\* C25: with any order_by and order_dir the listing answers 200 with the problems
\* the same request without order_by lists, each of them once
C25_OrderingKeepsTheListedSet ==
    (IsListing /\ TruthySeq(last.body.order_by))
    => /\ last.status = 200
       /\ last.result = Listing([last.body EXCEPT !.order_by = None])
       /\ Len(last.rows) = Cardinality(last.result)
       /\ Range(last.rows) = last.result

\* C26: when no token of order_by is an attribute of Problem or the name
\* "tag_name", no key is given to ORDER BY and the request is answered as the
\* request without order_by
C26_OnlyTagNameOrdersByTag ==
    (/\ IsListing
     /\ \A i \in 1..Len(LastTokens) :
            LastTokens[i] \notin ProblemColumns \cup ProblemAttributes \cup {"tag_name"})
    => /\ order_keys(last.body) = <<>>
       /\ last.status = 200
       /\ last.result = Listing(last.body)

---------------------------------------------------------------------------
(* Properties of the sessions and of requests in flight together, stated  *)
(* over SpecWeb                                                           *)

\* C21: the step that ends a request, whatever its status, leaves the session the
\* request was given outside a transaction and without objects; when every
\* request has ended, no session is in a transaction
C21_SessionReleasedOnEveryExit ==
    [][/\ \A r \in Requests :
            (requests[r].pc # "done" /\ requests'[r].pc = "done")
            => /\ requests'[r].session \in DOMAIN sessions'
               /\ sessions'[requests'[r].session] = NewSession
       /\ (\A r \in Requests : requests'[r].pc = "done")
            => \A s \in DOMAIN sessions' : sessions'[s] = NewSession]_vars

\* a request that ended in an unexpected error and a request answered 404 have
\* both ended, and every session is outside a transaction
C21_Witness ==
    \E r1, r2 \in Requests :
        /\ requests[r1].pc = "done" /\ requests[r1].status = 500
        /\ requests[r2].pc = "done" /\ requests[r2].status = 404
        /\ \A s \in DOMAIN sessions : sessions[s] = NewSession

\* C22: no two requests in flight hold the same session
C22_SessionsAreNotShared ==
    \A r1, r2 \in Requests :
        (r1 # r2 /\ Holding(r1) /\ Holding(r2))
        => requests[r1].session # requests[r2].session

====
